---- MODULE Spec2Model ----
(***************************************************************************)
(* Line-of-sight clearance calculator                                      *)
(* (Assignments/1/Submission/FirstQuestion.py).                            *)
(*                                                                         *)
(* The script is a straight-line program: it reads deploy_data.txt,        *)
(* computes the wavelength, folds over the obstructions keeping two        *)
(* running maxima, derives the B-side heights and writes output.txt.       *)
(* Each statement group is one action, sequenced by pc.  An uncaught       *)
(* Python exception moves pc to "aborted" and records its kind in err.     *)
(*                                                                         *)
(* Python floats are modelled as decimal fixed-point integers: lengths     *)
(* that enter the square root (waveLength and the radicand) carry 3        *)
(* fractional digits (WScale), the radius and all heights carry 6          *)
(* (Scale), and format(x, '.4f') rounds to FormatDigits digits.  Like a    *)
(* double, a float keeps a fixed number of significant digits (those of    *)
(* SigLimit): the result of every float operation is rounded to them, to   *)
(* nearest, ties to even (Fl).                                             *)
(* transmissionFrequency is kept in MHz; line 24 multiplies it by 1e6 and  *)
(* lines 25 and 58 divide that factor out again.                           *)
(***************************************************************************)
EXTENDS Integers, Sequences, FiniteSets, TLC

VARIABLES
    lines,                  \* the lines of deploy_data.txt
    pc,                     \* position in the script
    err,                    \* kind of the uncaught exception, "none" if none
    buildingA, buildingB, distanceBtw, transmissionFrequency, noOfBuilding,
    variables,              \* list of {'D1', 'Height'}
    waveLength,
    LOStowerA, LOStowerAs, nearLOStowerA, nearLOStowerAs,
    i,                      \* number of loop iterations completed
    radius,                 \* radius of the last obstruction processed
    LOStowerB, nearLOStowerB,
    opened,                 \* output.txt has been opened (created / truncated)
    out,                    \* complete lines of output.txt
    cur,                    \* numbers written on the unterminated last line
    printed                 \* the attenuation has been printed

vars == <<lines, pc, err, buildingA, buildingB, distanceBtw,
          transmissionFrequency, noOfBuilding, variables, waveLength,
          LOStowerA, LOStowerAs, nearLOStowerA, nearLOStowerAs, i, radius,
          LOStowerB, nearLOStowerB, opened, out, cur, printed>>

----------------------------------------------------------------------------
(* Bounds and fixed-point scales *)

MaxN == 2                   \* largest obstruction count of the enumerated files

FormatDigits == 4           \* format(x, '.4f')
Scale == 10 ^ 6             \* radius and heights: 6 fractional digits
WScale == 10 ^ 3            \* waveLength and radicand: 3 fractional digits
SigLimit == 10 ^ 7          \* floats keep 7 significant digits

----------------------------------------------------------------------------
(* Input files *)

Line(n) == [ok |-> TRUE, val |-> n]
Bad == [ok |-> FALSE, val |-> 0]         \* a line int()/float() rejects

RECURSIVE Flatten(_)
Flatten(obs) ==
    IF obs = <<>> THEN <<>>
    ELSE <<Line(Head(obs).D1), Line(Head(obs).Height)>> \o Flatten(Tail(obs))

File(A, B, d, f, n, obs) ==
    <<Line(A), Line(B), Line(d), Line(f), Line(n)>> \o Flatten(obs)

BuildingVals == { <<2, 7>>, <<5, 1>> }     \* (buildingA, buildingB)
DistVals == {0, 4}
FreqVals == {0, 300, -300}
D1Vals == {-1, 0, 2, 4, 5}
HVals == {1, 6}

Obstacle == [D1 : D1Vals, Height : HVals]

\* lines is one of the enumerated small files
IsSmallFile(ls) ==
    \E n \in 0..MaxN :
        \E ab \in BuildingVals, d \in DistVals, f \in FreqVals,
           obs \in [1..n -> Obstacle] :
            ls = File(ab[1], ab[2], d, f, n, obs)

\* The sample input kept as a comment in the script.
SampleObs == << [D1 |-> 300, Height |-> 18], [D1 |-> 600, Height |-> 19],
                [D1 |-> 1200, Height |-> 21], [D1 |-> 1600, Height |-> 22] >>
SampleFile == File(20, 15, 2000, 2400, 4, SampleObs)

\* Files with a missing or malformed line, a negative count, or a count
\* larger than the pairs that follow.
BaseFile == File(2, 7, 4, 300, 1, << [D1 |-> 2, Height |-> 6] >>)
DamagedFiles ==
    { SubSeq(BaseFile, 1, k) : k \in 0..(Len(BaseFile) - 1) }
    \cup { [BaseFile EXCEPT ![k] = Bad] : k \in 1..Len(BaseFile) }
    \cup { File(2, 7, 4, 300, -1, <<>>),
           File(2, 7, 4, 300, 2, << [D1 |-> 2, Height |-> 6] >>) }

----------------------------------------------------------------------------
(* Arithmetic *)

Abs(x) == IF x < 0 THEN -x ELSE x

\* The weight of the last significant digit a float of magnitude m keeps.
RECURSIVE UlpOf(_, _)
UlpOf(m, u) == IF m \div u < SigLimit THEN u ELSE UlpOf(m, 10 * u)

Ulp(x) == UlpOf(Abs(x), 1)

\* m >= 0 rounded to a multiple of u, to nearest, ties to even
RoundTo(m, u) ==
    IF 2 * (m % u) > u \/ (2 * (m % u) = u /\ (m \div u) % 2 = 1)
    THEN (m \div u + 1) * u
    ELSE (m \div u) * u

\* Intermediate results are bound through singleton sets, so that each is
\* computed once however often it is used.

\* The float nearest to x: the rounding every float operation ends with.
Fl(x) ==
    CHOOSE v \in { IF y >= 0 THEN RoundTo(y, Ulp(y)) ELSE -RoundTo(-y, Ulp(y)) :
                       y \in {x} } : TRUE

RECURSIVE ISqrt(_)
ISqrt(n) ==
    IF n < 2 THEN n
    ELSE CHOOSE r \in { IF (s + 1) * (s + 1) <= n THEN s + 1 ELSE s :
                          s \in { 2 * ISqrt(n \div 4) } } : TRUE

\* One more decimal digit of a square root, from the root s.r found so far
\* and the remainder s.rem left over by it.
NextDigit(s) ==
    LET d == CHOOSE x \in 0..9 :
                 /\ (20 * s.r + x) * x <= 100 * s.rem
                 /\ (x = 9 \/ (20 * s.r + x + 1) * (x + 1) > 100 * s.rem)
    IN  [r |-> 10 * s.r + d, rem |-> 100 * s.rem - (20 * s.r + d) * d]

RECURSIVE Refine(_, _)
Refine(s, k) ==
    IF k = 0 THEN s
    ELSE CHOOSE t \in { Refine(u, k - 1) : u \in { NextDigit(v) : v \in {s} } }
             : TRUE

\* Number of decimal digits of a power of ten: Log10Of(1000) = 3.
RECURSIVE Log10Of(_)
Log10Of(p) == IF p <= 1 THEN 0 ELSE 1 + Log10Of(p \div 10)

\* math.sqrt of q >= 0: q at WScale, the result at Scale.
Sqrt(q) ==
    CHOOSE v \in { Fl(Refine([r |-> r0, rem |-> q * WScale - r0 * r0],
                             Log10Of(Scale \div WScale)).r) :
                       r0 \in { ISqrt(q * WScale) } } : TRUE

\* Variant: the speed of light taken as 3e9.
WaveLengthTenfold(f) ==
    IF f = 0 THEN [err |-> "ZeroDivisionError", val |-> 0]
    ELSE [err |-> "none", val |-> Fl((3000 * WScale) \div f)]

\* waveLength = 300000000 / (transmissionFrequency * 1000000)
WaveLength(f) ==
    IF f = 0 THEN [err |-> "ZeroDivisionError", val |-> 0]
    ELSE [err |-> "none", val |-> Fl((300 * WScale) \div f)]

\* Variant: the division is by D2 alone.
RadiusDivD2(wl, D1, D2) ==
    IF D2 = 0 THEN [err |-> "ZeroDivisionError", val |-> 0]
    ELSE LET q == Fl(Fl(Fl(wl * D1) * D2) \div D2)
         IN  IF q < 0 THEN [err |-> "ValueError", val |-> 0]
             ELSE [err |-> "none", val |-> Sqrt(q)]

\* radius = math.sqrt((waveLength*D1*D2)/(D1 + D2))
Radius(wl, D1, D2) ==
    IF D1 + D2 = 0 THEN [err |-> "ZeroDivisionError", val |-> 0]
    ELSE LET q == Fl(Fl(Fl(wl * D1) * D2) \div (D1 + D2))
         IN  IF q < 0 THEN [err |-> "ValueError", val |-> 0]
             ELSE [err |-> "none", val |-> Sqrt(q)]

\* 0.6*radius
LosMargin(r) == Fl((6 * r) \div 10)

\* 0.4*radius
NearLosMargin(r) == Fl((4 * r) \div 10)

\* Variant: the clearance margin is subtracted.
CandidateMinus(h, a, margin) == Fl((h - a) * Scale - margin)

\* Height - buildingA + margin
Candidate(h, a, margin) == Fl((h - a) * Scale + margin)

\* Variants: the latest value replaces the running one; min for max.
MaxLast(a, b) == b
MaxMin(a, b) == IF b < a THEN b ELSE a

\* max(a, b)
Max(a, b) == IF b > a THEN b ELSE a

\* Variant: the building heights are exchanged.
TowerBSwapped(a, b, hA) == Fl((b - a) * Scale + hA)
\* buildingA - buildingB + towerA
TowerB(a, b, hA) == Fl((a - b) * Scale + hA)

\* format(x, '.4f'), as the number of 10^-4 units printed.
Format4(x) ==
    LET unit == Scale \div (10 ^ FormatDigits)
        q    == x \div unit
        rest == x % unit
    IN  IF 2 * rest > unit \/ (2 * rest = unit /\ q % 2 = 1)
        THEN q + 1 ELSE q

\* math.log10((transmissionFrequency*distanceBtw/1000000000)/1000) raises
\* ValueError unless its argument is positive.
Log10Defined(f, d) == f * d > 0

----------------------------------------------------------------------------
(* Parsing: lines 3-11 *)

\* int(lines[k]) with k counted from 0
ParseAt(ls, k) ==
    IF k + 1 > Len(ls) THEN [err |-> "IndexError", val |-> 0]
    ELSE IF ~ls[k + 1].ok THEN [err |-> "ValueError", val |-> 0]
    ELSE [err |-> "none", val |-> ls[k + 1].val]

\* Indices (from 0) the script converts, in evaluation order.
ParseOrder(ls) ==
    LET n == ParseAt(ls, 4)
        c == IF n.err = "none" /\ n.val > 0 THEN n.val ELSE 0
    IN  [k \in 1..(5 + 2 * c) |-> k - 1]

FirstError(ls) ==
    LET ord  == ParseOrder(ls)
        fail == { k \in 1..Len(ord) : ParseAt(ls, ord[k]).err # "none" }
    IN  IF fail = {} THEN "none"
        ELSE LET m == CHOOSE k \in fail : \A j \in fail : k <= j
             IN  ParseAt(ls, ord[m]).err

Pairs(ls) ==
    LET n == ParseAt(ls, 4).val
        c == IF n > 0 THEN n ELSE 0
    IN  [k \in 1..c |-> [D1 |-> ParseAt(ls, 5 + 2 * (k - 1)).val,
                         Height |-> ParseAt(ls, 6 + 2 * (k - 1)).val]]

----------------------------------------------------------------------------
(* The script *)

Init ==
    /\ \/ IsSmallFile(lines)
       \/ lines = SampleFile
       \/ lines \in DamagedFiles
    /\ pc = "read"
    /\ err = "none"
    /\ buildingA = 0 /\ buildingB = 0 /\ distanceBtw = 0
    /\ transmissionFrequency = 0 /\ noOfBuilding = 0
    /\ variables = <<>>
    /\ waveLength = 0
    /\ LOStowerA = 0 /\ LOStowerAs = <<>>
    /\ nearLOStowerA = 0 /\ nearLOStowerAs = <<>>
    /\ i = 0 /\ radius = 0
    /\ LOStowerB = 0 /\ nearLOStowerB = 0
    /\ opened = FALSE /\ out = <<>> /\ cur = <<>> /\ printed = FALSE

Abort(kind) == pc' = "aborted" /\ err' = kind

\* lines 3-11
ReadInput ==
    /\ pc = "read"
    /\ LET e == FirstError(lines)
       IN  IF e # "none"
           THEN /\ Abort(e)
                /\ UNCHANGED <<buildingA, buildingB, distanceBtw,
                               transmissionFrequency, noOfBuilding, variables>>
           ELSE /\ buildingA' = ParseAt(lines, 0).val
                /\ buildingB' = ParseAt(lines, 1).val
                /\ distanceBtw' = ParseAt(lines, 2).val
                /\ transmissionFrequency' = ParseAt(lines, 3).val
                /\ noOfBuilding' = ParseAt(lines, 4).val
                /\ variables' = Pairs(lines)
                /\ pc' = "wave"
                /\ err' = err
    /\ UNCHANGED <<lines, waveLength, LOStowerA, LOStowerAs, nearLOStowerA,
                   nearLOStowerAs, i, radius, LOStowerB, nearLOStowerB,
                   opened, out, cur, printed>>

\* lines 24-30
ComputeWaveLength ==
    /\ pc = "wave"
    /\ LET w == WaveLength(transmissionFrequency)
       IN  IF w.err # "none"
           THEN /\ Abort(w.err)
                /\ UNCHANGED <<waveLength, LOStowerA, LOStowerAs,
                               nearLOStowerA, nearLOStowerAs>>
           ELSE /\ waveLength' = w.val
                /\ LOStowerA' = 0
                /\ LOStowerAs' = <<>>
                /\ nearLOStowerA' = 0
                /\ nearLOStowerAs' = <<>>
                /\ pc' = "loop"
                /\ err' = err
    /\ UNCHANGED <<lines, buildingA, buildingB, distanceBtw,
                   transmissionFrequency, noOfBuilding, variables, i, radius,
                   LOStowerB, nearLOStowerB, opened, out, cur, printed>>

\* lines 32-38, one iteration
Iterate ==
    /\ pc = "loop"
    /\ i < noOfBuilding
    /\ LET v   == variables[i + 1]
           D2  == distanceBtw - v.D1
           r   == Radius(waveLength, v.D1, D2)
           los == Candidate(v.Height, buildingA, LosMargin(r.val))
           nl  == Candidate(v.Height, buildingA, NearLosMargin(r.val))
       IN  IF r.err # "none"
           THEN /\ Abort(r.err)
                /\ UNCHANGED <<radius, LOStowerA, LOStowerAs, nearLOStowerA,
                               nearLOStowerAs, i>>
           ELSE /\ radius' = r.val
                /\ LOStowerAs' = Append(LOStowerAs, los)
                /\ LOStowerA' = Max(LOStowerA, los)
                /\ nearLOStowerAs' = Append(nearLOStowerAs, nl)
                /\ nearLOStowerA' = Max(nearLOStowerA, nl)
                /\ i' = i + 1
                /\ UNCHANGED <<pc, err>>
    /\ UNCHANGED <<lines, buildingA, buildingB, distanceBtw,
                   transmissionFrequency, noOfBuilding, variables, waveLength,
                   LOStowerB, nearLOStowerB, opened, out, cur, printed>>

\* lines 41-42, reached when the loop is exhausted
ComputeTowerB ==
    /\ pc = "loop"
    /\ i >= noOfBuilding
    /\ LOStowerB' = TowerB(buildingA, buildingB, LOStowerA)
    /\ nearLOStowerB' = TowerB(buildingA, buildingB, nearLOStowerA)
    /\ pc' = "open"
    /\ UNCHANGED <<lines, err, buildingA, buildingB, distanceBtw,
                   transmissionFrequency, noOfBuilding, variables, waveLength,
                   LOStowerA, LOStowerAs, nearLOStowerA, nearLOStowerAs, i,
                   radius, opened, out, cur, printed>>

\* line 44
OpenOutput ==
    /\ pc = "open"
    /\ opened' = TRUE
    /\ out' = <<>>
    /\ cur' = <<>>
    /\ pc' = "writeLOS"
    /\ UNCHANGED <<lines, err, buildingA, buildingB, distanceBtw,
                   transmissionFrequency, noOfBuilding, variables, waveLength,
                   LOStowerA, LOStowerAs, nearLOStowerA, nearLOStowerAs, i,
                   radius, LOStowerB, nearLOStowerB, printed>>

Text(t, nums) == [text |-> t, nums |-> nums]

\* LOStowerAs[i] - LOStowerA
Gap(cand, top) == Fl(cand - top)

\* the numbers of one 'GAP for each building' line, range(0, noOfBuilding)
Gaps(cands, top) ==
    [k \in 1..(IF noOfBuilding > 0 THEN noOfBuilding ELSE 0) |->
        Format4(Gap(cands[k], top))]

\* lines 45-51
WriteLOS ==
    /\ pc = "writeLOS"
    /\ out' = out \o
         << Text("solution is feasible for LOS", <<>>),
            Text("Antenna A height for LOS = ", <<Format4(LOStowerA)>>),
            Text("Antenna B height for LOS = ", <<Format4(LOStowerB)>>),
            Text("GAP for each building ", <<>>),
            Text("", Gaps(LOStowerAs, LOStowerA)) >>
    /\ pc' = "writeNLOS"
    /\ UNCHANGED <<lines, err, buildingA, buildingB, distanceBtw,
                   transmissionFrequency, noOfBuilding, variables, waveLength,
                   LOStowerA, LOStowerAs, nearLOStowerA, nearLOStowerAs, i,
                   radius, LOStowerB, nearLOStowerB, opened, cur, printed>>

\* lines 52-57: the last gap line is left unterminated
WriteNLOS ==
    /\ pc = "writeNLOS"
    /\ out' = out \o
         << Text("solution is feasible for nearLOS", <<>>),
            Text("Antenna A height for NLOS = ", <<Format4(nearLOStowerA)>>),
            Text("Antenna B height for NLOS = ", <<Format4(nearLOStowerB)>>),
            Text("GAP for each building ", <<>>) >>
    /\ cur' = Gaps(nearLOStowerAs, nearLOStowerA)
    /\ pc' = "attenuation"
    /\ UNCHANGED <<lines, err, buildingA, buildingB, distanceBtw,
                   transmissionFrequency, noOfBuilding, variables, waveLength,
                   LOStowerA, LOStowerAs, nearLOStowerA, nearLOStowerAs, i,
                   radius, LOStowerB, nearLOStowerB, opened, printed>>

\* lines 58-59, inside the with block: on an exception the file is closed
\* with what has been written so far
Attenuation ==
    /\ pc = "attenuation"
    /\ IF Log10Defined(transmissionFrequency, distanceBtw)
       THEN /\ printed' = TRUE
            /\ pc' = "close"
            /\ err' = err
       ELSE /\ Abort("ValueError")
            /\ printed' = printed
    /\ UNCHANGED <<lines, buildingA, buildingB, distanceBtw,
                   transmissionFrequency, noOfBuilding, variables, waveLength,
                   LOStowerA, LOStowerAs, nearLOStowerA, nearLOStowerAs, i,
                   radius, LOStowerB, nearLOStowerB, opened, out, cur>>

\* line 60 and the end of the with block
WriteEnd ==
    /\ pc = "close"
    /\ out' = Append(out, Text("", cur))
    /\ cur' = <<>>
    /\ pc' = "done"
    /\ UNCHANGED <<lines, err, buildingA, buildingB, distanceBtw,
                   transmissionFrequency, noOfBuilding, variables, waveLength,
                   LOStowerA, LOStowerAs, nearLOStowerA, nearLOStowerAs, i,
                   radius, LOStowerB, nearLOStowerB, opened, printed>>

Next ==
    \/ ReadInput
    \/ ComputeWaveLength
    \/ Iterate
    \/ ComputeTowerB
    \/ OpenOutput
    \/ WriteLOS
    \/ WriteNLOS
    \/ Attenuation
    \/ WriteEnd

Spec == Init /\ [][Next]_vars

\* The script never waits: whenever a statement is enabled it is executed.
FairSpec == Spec /\ WF_vars(Next)

----------------------------------------------------------------------------
(* Properties *)

\* The obstruction loop has run to its end.
LoopDone == pc = "open" \/ opened

Idx == 1..Len(LOStowerAs)

LosGap(k) == LOStowerAs[k] - LOStowerA
NlosGap(k) == nearLOStowerAs[k] - nearLOStowerA

SetMax(S) == CHOOSE x \in S : \A y \in S : y <= x

ListMax(cands) == SetMax({0} \cup { cands[k] : k \in 1..Len(cands) })

\* every obstruction lies strictly between the two buildings
InteriorGeometry ==
    \A k \in 1..Len(variables) :
        0 < variables[k].D1 /\ variables[k].D1 < distanceBtw

\* C1 as stated: after the loop every LOS gap is <= 0 and at least one
\* obstruction has a gap of exactly 0, for every input with
\* 0 < distanceFromA < pathDistance.
C1_AsStated ==
    (LoopDone /\ noOfBuilding >= 1 /\ InteriorGeometry) =>
        /\ \A k \in Idx : LosGap(k) <= 0
        /\ \E k \in Idx : LosGap(k) = 0

\* C1 amended: after the loop every LOS gap is <= 0; some gap is exactly 0
\* whenever some LOS candidate is >= 0, and when every candidate is negative
\* losHeightA stays at its seed 0 and every gap is strictly negative.
C1_GapSign ==
    LoopDone =>
        /\ Len(LOStowerAs) = Len(variables)
        /\ \A k \in Idx : LosGap(k) <= 0
        /\ (\E k \in Idx : LOStowerAs[k] >= 0) => (\E k \in Idx : LosGap(k) = 0)
        /\ (\A k \in Idx : LOStowerAs[k] < 0) =>
               (LOStowerA = 0 /\ \A k \in Idx : LosGap(k) < 0)

C1_Witness ==
    /\ LoopDone /\ noOfBuilding = 2 /\ InteriorGeometry
    /\ \E k \in Idx : LosGap(k) = 0
    /\ \E k \in Idx : LosGap(k) < 0

\* C2 as stated: an obstruction whose distanceFromA is 0 or pathDistance
\* makes the radius computation fail with a division by zero and the run
\* aborts.
C2_AsStated ==
    [][ (pc = "loop" /\ i < noOfBuilding
            /\ variables[i + 1].D1 \in {0, distanceBtw})
        => (pc' = "aborted" /\ err' = "ZeroDivisionError") ]_vars

\* C2 amended: with pathDistance nonzero, an obstruction whose distanceFromA
\* is 0 or pathDistance gets a Fresnel radius of 0 without any error and the
\* loop goes on; the radius computation divides by zero exactly when
\* pathDistance itself is 0.
C2_BoundaryRadius ==
    [][ (pc = "loop" /\ i < noOfBuilding) =>
          /\ (variables[i + 1].D1 \in {0, distanceBtw} /\ distanceBtw # 0)
                => (pc' = "loop" /\ err' = "none" /\ radius' = 0
                    /\ i' = i + 1)
          /\ (err' = "ZeroDivisionError") <=> (distanceBtw = 0) ]_vars

C2_Witness ==
    /\ pc = "loop" /\ i >= 1 /\ distanceBtw # 0
    /\ variables[i].D1 \in {0, distanceBtw}
    /\ radius = 0 /\ Len(LOStowerAs) = i

\* C3: whenever the run has ended, by an error or normally, output.txt
\* holds either all ten lines or nothing at all.
C3_AllOrNothing ==
    pc \in {"done", "aborted"} =>
        \/ (Len(out) = 10 /\ cur = <<>>)
        \/ (out = <<>> /\ cur = <<>>)

\* C4 as stated: for the sample input the wavelength is 0.125, obstruction 3
\* gives the largest LOS candidate, its radius is about 8.944 and losHeightA
\* prints as 7.3665.
C4_AsStated ==
    (lines = SampleFile /\ pc = "done") =>
        /\ waveLength * 1000 = 125 * WScale
        /\ \A k \in Idx : LOStowerAs[k] <= LOStowerAs[4]
        /\ Format4(radius) \div 10 = 8944
        /\ out[2].nums = <<73665>>

\* C4 amended: for the sample input the wavelength is 0.125, obstruction 3
\* gives the largest LOS candidate, its radius is sqrt(40), about 6.3246,
\* and losHeightA prints as 5.7947.
C4_Sample ==
    (lines = SampleFile /\ pc = "done") =>
        /\ waveLength * 1000 = 125 * WScale
        /\ \A k \in Idx : LOStowerAs[k] <= LOStowerAs[4]
        /\ LOStowerA = LOStowerAs[4]
        /\ Format4(radius) = 63246
        /\ out[2].nums = <<57947>>

C4_Witness ==
    /\ lines = SampleFile /\ pc = "done"
    /\ Len(LOStowerAs) = 4
    /\ out[2].text = "Antenna A height for LOS = "

\* C5: after k iterations each running maximum is the maximum of 0 and the
\* first k candidates, so after the loop it is max(0, all candidates), and 0
\* when there is no obstruction.
C5_RunningMax ==
    /\ Len(LOStowerAs) = i /\ Len(nearLOStowerAs) = i
    /\ LOStowerA = ListMax(LOStowerAs)
    /\ nearLOStowerA = ListMax(nearLOStowerAs)
    /\ (LoopDone /\ noOfBuilding <= 0) => (LOStowerA = 0 /\ nearLOStowerA = 0)
    /\ LoopDone => i = Len(variables)

C5_Witness ==
    /\ LoopDone /\ i = 2
    /\ LOStowerA = LOStowerAs[1] /\ LOStowerAs[2] < LOStowerAs[1]
    /\ nearLOStowerA = nearLOStowerAs[1]
    /\ nearLOStowerAs[2] < nearLOStowerAs[1]

\* C6: losHeightA and nlosHeightA are never negative, also when every
\* obstruction is lower than building A by more than its clearance.
C6_NonNegative == LOStowerA >= 0 /\ nearLOStowerA >= 0

C6_Witness ==
    /\ LoopDone /\ i >= 1
    /\ \A k \in Idx : LOStowerAs[k] < 0 /\ nearLOStowerAs[k] < 0
    /\ LOStowerA = 0 /\ nearLOStowerA = 0

\* C7: the near-LOS height never exceeds the LOS height.
C7_Ordering == nearLOStowerA <= LOStowerA

C7_Witness ==
    /\ pc = "loop" /\ i >= 1 /\ radius > 0
    /\ nearLOStowerA < LOStowerA

ExactDiff == (buildingA - buildingB) * Scale

\* C8 as stated: once computed, each B-side height differs from its A-side
\* height by exactly buildingA - buildingB.
C8_AsStated ==
    LoopDone =>
        /\ LOStowerB - LOStowerA = ExactDiff
        /\ nearLOStowerB - nearLOStowerA = ExactDiff

\* C8 amended: each B-side height differs from its A-side height by
\* buildingA - buildingB up to the rounding of the one float addition that
\* forms it: by at most half a unit in the last place of the B-side height.
C8_TowerB ==
    LoopDone =>
        /\ 2 * Abs(LOStowerB - LOStowerA - ExactDiff) <= Ulp(LOStowerB)
        /\ 2 * Abs(nearLOStowerB - nearLOStowerA - ExactDiff)
               <= Ulp(nearLOStowerB)

C8_Witness ==
    /\ LoopDone /\ buildingB > buildingA
    /\ LOStowerB < 0 /\ nearLOStowerB < 0 /\ LOStowerA > 0
    /\ LOStowerB - LOStowerA = ExactDiff

\* C9 as stated: one obstruction (the maximizing one) has gap 0 and every
\* other obstruction has a strictly negative gap, for LOS and for NLOS.
\* Stated here for the runs whose largest candidates are not negative, where
\* the maximizing obstruction's gap is indeed 0.
C9_AsStated ==
    (LoopDone /\ noOfBuilding >= 1 /\ InteriorGeometry
        /\ (\E k \in Idx : LOStowerAs[k] >= 0)
        /\ (\E k \in Idx : nearLOStowerAs[k] >= 0)) =>
        /\ \E m \in Idx :
               LosGap(m) = 0 /\ \A k \in Idx \ {m} : LosGap(k) < 0
        /\ \E m \in Idx :
               NlosGap(m) = 0 /\ \A k \in Idx \ {m} : NlosGap(k) < 0

\* C9 amended: every obstruction whose candidate is below the largest
\* candidate has a strictly negative gap; the obstructions that share the
\* largest candidate all have the same gap, which is 0 when that candidate
\* is >= 0 and the candidate itself otherwise (LOS and NLOS alike).
C9_StrictGaps ==
    LoopDone =>
        \A k \in Idx :
            /\ (\E j \in Idx : LOStowerAs[j] > LOStowerAs[k]) => LosGap(k) < 0
            /\ (\A j \in Idx : LOStowerAs[j] <= LOStowerAs[k]) =>
                   LosGap(k) = (IF LOStowerAs[k] >= 0 THEN 0
                                ELSE LOStowerAs[k])
            /\ (\E j \in Idx : nearLOStowerAs[j] > nearLOStowerAs[k])
                   => NlosGap(k) < 0
            /\ (\A j \in Idx : nearLOStowerAs[j] <= nearLOStowerAs[k]) =>
                   NlosGap(k) = (IF nearLOStowerAs[k] >= 0 THEN 0
                                 ELSE nearLOStowerAs[k])

C9_Witness ==
    /\ LoopDone /\ i = 2
    /\ LOStowerAs[1] = LOStowerAs[2] /\ LOStowerAs[1] > 0
    /\ LosGap(1) = 0 /\ LosGap(2) = 0

\* The input file as the script will read it.
FileOk == FirstError(lines) = "none"
FileDist == ParseAt(lines, 2).val
FileFreq == ParseAt(lines, 3).val
FileN == ParseAt(lines, 4).val
FileObs == Pairs(lines)

\* well-formed, pathDistance > 0, frequency > 0, N >= 0
PositivePath == FileOk /\ FileDist > 0 /\ FileFreq > 0 /\ FileN >= 0

InRange(o) == 0 <= o.D1 /\ o.D1 <= FileDist

GoodFile == PositivePath /\ \A k \in 1..Len(FileObs) : InRange(FileObs[k])
OutOfRangeFile ==
    PositivePath /\ \E k \in 1..Len(FileObs) : ~InRange(FileObs[k])

CompleteOutput ==
    /\ Len(out) = 10 /\ cur = <<>>
    /\ Len(out[5].nums) = FileN /\ Len(out[10].nums) = FileN
    /\ \A k \in 1..FileN :
          LET o == FileObs[k]
              r == Radius(waveLength, o.D1, FileDist - o.D1).val
          IN  /\ out[5].nums[k] =
                   Format4(Gap(Candidate(o.Height, buildingA, LosMargin(r)),
                               LOStowerA))
              /\ out[10].nums[k] =
                   Format4(Gap(Candidate(o.Height, buildingA,
                                         NearLosMargin(r)),
                               nearLOStowerA))

\* State part of the termination property below.
C10_Safe ==
    /\ GoodFile => (pc # "aborted" /\ err = "none")
    /\ (GoodFile /\ pc = "done") => CompleteOutput
    /\ OutOfRangeFile => ~opened
    /\ (OutOfRangeFile /\ pc = "aborted") =>
           (err = "ValueError" /\ i < noOfBuilding
            /\ ~InRange(variables[i + 1]))

\* C10: a well-formed input with pathDistance > 0, frequency > 0, N >= 0 and
\* every obstruction within 0 <= distanceFromA <= pathDistance never raises
\* an error and ends with the complete ten-line output, N LOS gaps and N
\* NLOS gaps in input order; with an obstruction outside that range the run
\* aborts in the radius computation and output.txt is never opened.
C10_Termination ==
    /\ []C10_Safe
    /\ (GoodFile ~> (pc = "done"))
    /\ (OutOfRangeFile ~> (pc = "aborted"))

C10_Witness ==
    /\ GoodFile /\ pc = "done" /\ FileN = 2
    /\ \E k \in 1..2 : FileObs[k].D1 \in {0, FileDist}
    /\ CompleteOutput

====
